---- MODULE Spec2Model ----
(***************************************************************************)
(* A model of the bank-statement pipeline of src/main.py: amount parsing   *)
(* (convert_amount), table segmentation (extract_tables), header           *)
(* normalisation (clean_combined_df), grouping (summarize_and_sort_dinamica)*)
(* and the orchestration in main.                                          *)
(*                                                                         *)
(* Text is a sequence of characters, one string per character, so that     *)
(* lower(), strip(), replace(), the "in" test and float() are computed,    *)
(* not assumed.  The characters outside ASCII are written "EUR", "GBP",    *)
(* "O_ACUTE" and "o_acute".  A cell is a record of one shape: null         *)
(* (None/NaN), text, or a number n * 10^e.                                 *)
(***************************************************************************)
EXTENDS Integers, Sequences, FiniteSets, TLC

VARIABLES pc, x, amount,
          raw_df, index, table_start, tables,
          combined_df, cleaned_df, dinamica_df,
          combined_in, cleaned_out,
          clean_file, dinamica_file, analysis_result, pdf_file, log

vars == <<pc, x, amount, raw_df, index, table_start, tables,
          combined_df, cleaned_df, dinamica_df, combined_in, cleaned_out,
          clean_file, dinamica_file, analysis_result, pdf_file, log>>

----------------------------------------------------------------------------
(* Cells *)

NULL == [k |-> "null", s |-> <<>>, n |-> 0, e |-> 0]
Str(t) == [k |-> "str", s |-> t, n |-> 0, e |-> 0]
RAISED == [k |-> "raise", s |-> <<>>, n |-> 0, e |-> 0]

RECURSIVE Normalise(_, _)
Normalise(n, e) ==
    IF n = 0 THEN <<0, 0>>
    ELSE IF n % 10 = 0 THEN Normalise(n \div 10, e + 1)
    ELSE <<n, e>>

(* The float n * 10^e; equal floats are equal records. *)
Num(n, e) ==
    LET p == Normalise(n, e)
    IN  [k |-> "num", s |-> <<>>, n |-> p[1], e |-> p[2]]

isnull(c) == c.k = "null"

(* A table is its column labels and its rows; NoDf is a name not yet bound. *)
NoDf == [columns |-> <<>>, rows |-> <<>>]

----------------------------------------------------------------------------
(* Python str operations on text *)

Whitespace == {" "}
Digits == {"0", "1", "2", "3", "4", "5", "6", "7", "8", "9"}

UpperToLower ==
    [c \in {"A","B","C","D","E","F","G","H","I","J","K","L","M","N","O","P",
            "Q","R","S","T","U","V","W","X","Y","Z","O_ACUTE"} |->
        CASE c = "A" -> "a" [] c = "B" -> "b" [] c = "C" -> "c" [] c = "D" -> "d"
          [] c = "E" -> "e" [] c = "F" -> "f" [] c = "G" -> "g" [] c = "H" -> "h"
          [] c = "I" -> "i" [] c = "J" -> "j" [] c = "K" -> "k" [] c = "L" -> "l"
          [] c = "M" -> "m" [] c = "N" -> "n" [] c = "O" -> "o" [] c = "P" -> "p"
          [] c = "Q" -> "q" [] c = "R" -> "r" [] c = "S" -> "s" [] c = "T" -> "t"
          [] c = "U" -> "u" [] c = "V" -> "v" [] c = "W" -> "w" [] c = "X" -> "x"
          [] c = "Y" -> "y" [] c = "Z" -> "z" [] c = "O_ACUTE" -> "o_acute"]

lower(t) ==
    [i \in 1..Len(t) |-> IF t[i] \in DOMAIN UpperToLower THEN UpperToLower[t[i]] ELSE t[i]]

RECURSIVE lstrip(_)
lstrip(t) == IF t # <<>> /\ Head(t) \in Whitespace THEN lstrip(Tail(t)) ELSE t

RECURSIVE rstrip(_)
rstrip(t) ==
    IF t # <<>> /\ t[Len(t)] \in Whitespace THEN rstrip(SubSeq(t, 1, Len(t) - 1)) ELSE t

strip(t) == rstrip(lstrip(t))

(* t.replace(c, '') for a one-character c *)
remove(t, c) == SelectSeq(t, LAMBDA ch : ch # c)

startswith(t, c) == t # <<>> /\ Head(t) = c
endswith(t, c) == t # <<>> /\ t[Len(t)] = c

(* sub in t *)
contains(t, sub) ==
    \E i \in 1..(Len(t) - Len(sub) + 1) : SubSeq(t, i, i + Len(sub) - 1) = sub

DigitValue(c) ==
    CASE c = "0" -> 0 [] c = "1" -> 1 [] c = "2" -> 2 [] c = "3" -> 3 [] c = "4" -> 4
      [] c = "5" -> 5 [] c = "6" -> 6 [] c = "7" -> 7 [] c = "8" -> 8 [] c = "9" -> 9

RECURSIVE DigitsValue(_)
DigitsValue(t) ==
    IF t = <<>> THEN 0
    ELSE 10 * DigitsValue(SubSeq(t, 1, Len(t) - 1)) + DigitValue(t[Len(t)])

(* float(t) on text without letters: surrounding whitespace is ignored, then *)
(* an optional sign, then digits with at most one point and at least one     *)
(* digit.  Anything else is a ValueError, returned here as RAISED.           *)
float(t) ==
    LET u == strip(t)
        signed == u # <<>> /\ Head(u) \in {"-", "+"}
        body == IF signed THEN Tail(u) ELSE u
        points == {i \in 1..Len(body) : body[i] = "."}
        digs == SelectSeq(body, LAMBDA ch : ch \in Digits)
        frac == IF points = {} THEN 0 ELSE Len(body) - (CHOOSE i \in points : TRUE)
        wellformed == /\ \A i \in 1..Len(body) : body[i] \in Digits \cup {"."}
                      /\ Cardinality(points) <= 1
                      /\ digs # <<>>
        mag == DigitsValue(digs)
    IN  IF ~wellformed THEN RAISED
        ELSE Num(IF signed /\ Head(u) = "-" THEN 0 - mag ELSE mag, 0 - frac)

----------------------------------------------------------------------------
(* convert_amount *)

CurrencySymbols == <<"$", "EUR", "GBP">>

RECURSIVE RemoveSymbols(_, _)
RemoveSymbols(t, i) ==
    IF i > Len(CurrencySymbols) THEN t
    ELSE RemoveSymbols(remove(t, CurrencySymbols[i]), i + 1)

(* A variant that keeps the whitespace left in front of the number. *)
TrailingMinus_NoStrip(t) ==
    IF endswith(t, "-") THEN <<"-">> \o SubSeq(t, 1, Len(t) - 1) ELSE t

TrailingMinus(t) ==
    IF endswith(t, "-") THEN <<"-">> \o strip(SubSeq(t, 1, Len(t) - 1)) ELSE t

Parenthesised(t) ==
    IF startswith(t, "(") /\ endswith(t, ")")
    THEN <<"-">> \o strip(SubSeq(t, 2, Len(t) - 1))
    ELSE t

(* try: return float(s); except Exception: log, return None *)
TryFloat(t) == LET r == float(t) IN IF r = RAISED THEN NULL ELSE r

convert_amount(c) ==
    IF isnull(c) THEN NULL
    ELSE IF c.k = "num" THEN c    \* str() of a float parses back to that float
    ELSE LET s0 == strip(c.s)
             s1 == RemoveSymbols(s0, 1)
             s2 == remove(s1, ",")
             s3 == TrailingMinus(s2)
             s4 == Parenthesised(s3)
         IN  TryFloat(s4)

----------------------------------------------------------------------------
(* extract_tables *)

None == -1

Sentinel == <<"m","o","v","i","m","i","e","n","t","o","s">>

(* raw_df.iloc[table_start:index], kept as the two positions of the slice *)
iloc(first, last) == [start |-> first, end |-> last]

IsSentinelRow(row) ==
    LET first_cell == IF ~isnull(row[1]) THEN lower(row[1].s) ELSE <<>>
    IN  contains(first_cell, Sentinel)

(* A variant whose start test is skipped while a table is pending. *)
ScanStep_StartOnlyWhenSearching(st, row, i) ==
    IF st.table_start = None /\ IsSentinelRow(row)
    THEN [st EXCEPT !.table_start = i + 1]
    ELSE IF st.table_start # None /\ isnull(row[6])
    THEN [table_start |-> None, tables |-> Append(st.tables, iloc(st.table_start, i))]
    ELSE st

(* A variant that keeps table_start after a table is closed. *)
ScanStep_NoReset(st, row, i) ==
    IF IsSentinelRow(row)
    THEN [st EXCEPT !.table_start = i + 1]
    ELSE IF st.table_start # None /\ isnull(row[6])
    THEN [st EXCEPT !.tables = Append(st.tables, iloc(st.table_start, i))]
    ELSE st

(* One iteration of the loop over raw_df.iterrows(): row is the row at       *)
(* position i (zero-based), st the pair of table_start and tables.           *)
ScanStep(st, row, i) ==
    IF IsSentinelRow(row)
    THEN [st EXCEPT !.table_start = i + 1]
    ELSE IF st.table_start # None /\ isnull(row[6])
    THEN [table_start |-> None, tables |-> Append(st.tables, iloc(st.table_start, i))]
    ELSE st

RECURSIVE ScanFrom(_, _, _)
ScanFrom(st, rows, i) ==
    IF i >= Len(rows) THEN st ELSE ScanFrom(ScanStep(st, rows[i + 1], i), rows, i + 1)

(* A variant that also emits the run still pending when the rows end. *)
ReturnTables_FlushPending(st, n) ==
    IF st.table_start # None THEN Append(st.tables, iloc(st.table_start, n)) ELSE st.tables

(* return tables *)
ReturnTables(st, n) == st.tables

extract_tables(df) ==
    ReturnTables(ScanFrom([table_start |-> None, tables |-> <<>>], df.rows, 0), Len(df.rows))

----------------------------------------------------------------------------
(* Arithmetic and order of cell values *)

RECURSIVE Pow10(_)
Pow10(k) == IF k <= 0 THEN 1 ELSE 10 * Pow10(k - 1)

MinExp(a, b) == IF a.e <= b.e THEN a.e ELSE b.e

Scaled(a, m) == a.n * Pow10(a.e - m)

CharOrder ==
    << " ", "$", "(", ")", ",", "-", ".", "/",
       "0", "1", "2", "3", "4", "5", "6", "7", "8", "9", ":",
       "A","B","C","D","E","F","G","H","I","J","K","L","M","N","O","P","Q","R","S","T",
       "U","V","W","X","Y","Z",
       "a","b","c","d","e","f","g","h","i","j","k","l","m","n","o","p","q","r","s","t",
       "u","v","w","x","y","z", "GBP", "O_ACUTE", "o_acute", "EUR" >>

ord(c) == CHOOSE i \in 1..Len(CharOrder) : CharOrder[i] = c

RECURSIVE TextLess(_, _)
TextLess(a, b) ==
    IF b = <<>> THEN FALSE
    ELSE IF a = <<>> THEN TRUE
    ELSE IF Head(a) = Head(b) THEN TextLess(Tail(a), Tail(b))
    ELSE ord(Head(a)) < ord(Head(b))

(* a + b of two summed values: floats add (exactly here: the model's        *)
(* amounts are decimals), text concatenates, as the sum of a column left as  *)
(* text does; a float and text cannot be added (TypeError).                  *)
Plus(a, b) ==
    IF a.k = "num" /\ b.k = "num"
    THEN Num(Scaled(a, MinExp(a, b)) + Scaled(b, MinExp(a, b)), MinExp(a, b))
    ELSE IF a.k = "str" /\ b.k = "str" THEN Str(a.s \o b.s)
    ELSE RAISED

(* a < b; comparing a float with text is a TypeError, not an order *)
Comparable(a, b) == a.k = b.k /\ a.k \in {"num", "str"}

Less(a, b) ==
    IF a.k = "num" THEN Scaled(a, MinExp(a, b)) < Scaled(b, MinExp(a, b))
    ELSE TextLess(a.s, b.s)

----------------------------------------------------------------------------
(* clean_combined_df *)

Fecha == <<"f","e","c","h","a">>
Valor == <<"V","a","l","o","r">>

(* Series.str.lower(): a cell that is not text becomes NaN *)
StrLower(c) == IF c.k = "str" THEN Str(lower(c.s)) ELSE NULL

(* Series.str.contains("FECHA", case=False, na=False) *)
StrContainsFecha(c) == c.k = "str" /\ contains(lower(c.s), Fecha)

(* A variant of the filter without the exemption of the first row. *)
FilterHeaders_NoExemption(rows) == SelectSeq(rows, LAMBDA r : ~StrContainsFecha(r[1]))

(* first_row, and the rows from the second on that the mask keeps *)
FilterHeaders(rows) ==
    IF rows = <<>> THEN <<>>
    ELSE <<Head(rows)>> \o SelectSeq(Tail(rows), LAMBDA r : ~StrContainsFecha(r[1]))

(* The position (from 1) of the column whose values are converted: the      *)
(* column labelled 'Valor' when there is one, else the column at index 4.    *)
AmountColumn(columns) ==
    IF \E j \in 1..Len(columns) : columns[j] = Str(Valor)
    THEN CHOOSE j \in 1..Len(columns) : columns[j] = Str(Valor)
    ELSE 5

ConvertColumn(rows, j) ==
    [i \in 1..Len(rows) |-> [rows[i] EXCEPT ![j] = convert_amount(rows[i][j])]]

(* The call's outcome: the exception raised ("no" for none), the value      *)
(* returned, and the caller's table as the call leaves it (arg).             *)
clean_combined_df(df) ==
    IF df.rows = <<>>
    THEN [raised |-> "IndexError", ret |-> NoDf, arg |-> df]
    ELSE LET header == [j \in 1..Len(df.columns) |-> StrLower(df.rows[1][j])]
             kept == FilterHeaders(Tail(df.rows))
         IN  [raised |-> "no",
              ret |-> [columns |-> header,
                       rows |-> ConvertColumn(kept, AmountColumn(header))],
              arg |-> [df EXCEPT !.columns = header]]

----------------------------------------------------------------------------
(* summarize_and_sort_dinamica *)

Descripcion == <<"d","e","s","c","r","i","p","c","i","o_acute","n">>
ValorLabel == <<"v","a","l","o","r">>
ValorSum == <<"v","a","l","o","r","_","s","u","m">>
Recurrencia == <<"r","e","c","u","r","r","e","n","c","i","a">>

(* Index.str.strip() *)
StrStrip(c) == IF c.k = "str" THEN Str(strip(c.s)) ELSE NULL

ColumnsNamed(columns, label) == {j \in 1..Len(columns) : columns[j] = Str(label)}

RECURSIVE SortedKeys(_)
SortedKeys(keys) ==
    IF keys = {} THEN <<>>
    ELSE LET least == CHOOSE a \in keys : \A b \in keys : ~TextLess(b.s, a.s)
         IN  <<least>> \o SortedKeys(keys \ {least})

(* The sum of the cells that are not null, from the first on; 0 for none *)
RECURSIVE SumFrom(_, _)
SumFrom(acc, cells) ==
    IF cells = <<>> \/ acc = RAISED THEN acc
    ELSE SumFrom(Plus(acc, Head(cells)), Tail(cells))

Sum(cells) ==
    LET present == SelectSeq(cells, LAMBDA c : ~isnull(c))
    IN  IF present = <<>> THEN Num(0, 0) ELSE SumFrom(Head(present), Tail(present))

(* A variant of the sum that stops at the first null cell. *)
GroupRow_SumUntilNull(rows, d, v, key) ==
    LET members == SelectSeq(rows, LAMBDA r : r[d] = key)
        cells == [i \in 1..Len(members) |-> members[i][v]]
        nulls == {i \in 1..Len(cells) : isnull(cells[i])}
        upto == IF nulls = {} THEN Len(cells)
                ELSE (CHOOSE i \in nulls : \A j \in nulls : i <= j) - 1
    IN  <<key, Sum(SubSeq(cells, 1, upto)), Num(upto, 0)>>

(* groupby(...).agg(valor_sum=('valor', 'sum'), recurrencia=('valor', 'size')) *)
(* for one key: rows is the table, d and v the two columns' positions.         *)
GroupRow(rows, d, v, key) ==
    LET members == SelectSeq(rows, LAMBDA r : r[d] = key)
        cells == [i \in 1..Len(members) |-> members[i][v]]
    IN  <<key, Sum(cells), Num(Len(members), 0)>>

(* The grouped rows in the order of groupby: ascending by key, the rows     *)
(* whose key is null left out.                                               *)
Grouped(rows, d, v) ==
    LET keys == SortedKeys({rows[i][d] : i \in 1..Len(rows)} \ {NULL})
    IN  [g \in 1..Len(keys) |-> GroupRow(rows, d, v, keys[g])]

Orders(n) == {p \in [1..n -> 1..n] : \A i, j \in 1..n : i # j => p[i] # p[j]}

(* A variant of the order: ascending by valor_sum. *)
SortOrders_Ascending(g) ==
    {p \in Orders(Len(g)) : \A i \in 1..(Len(g) - 1) : ~Less(g[p[i + 1]][2], g[p[i]][2])}

(* sort_values(by='valor_sum', ascending=False) with the default kind,      *)
(* quicksort, which is not a stable sort: every order of the grouped rows in *)
(* which no row has a smaller valor_sum than a later row.                    *)
SortOrders(g) ==
    {p \in Orders(Len(g)) : \A i \in 1..(Len(g) - 1) : ~Less(g[p[i]][2], g[p[i + 1]][2])}

SortRaises(g) == \E i, j \in 1..Len(g) : i # j /\ ~Comparable(g[i][2], g[j][2])

(* The outcomes of a call: one per order the sort may produce. *)
summarize_and_sort_dinamica(df) ==
    LET stripped == [j \in 1..Len(df.columns) |-> StrStrip(df.columns[j])]
        arg == [df EXCEPT !.columns = stripped]
        ds == ColumnsNamed(stripped, Descripcion)
        vs == ColumnsNamed(stripped, ValorLabel)
        g == Grouped(df.rows, CHOOSE j \in ds : TRUE, CHOOSE j \in vs : TRUE)
    IN  IF Cardinality(ds) # 1 \/ Cardinality(vs) # 1
        THEN {[raised |-> "KeyError", ret |-> NoDf, arg |-> arg]}
        ELSE IF \E i \in 1..Len(g) : g[i][2] = RAISED
        THEN {[raised |-> "TypeError", ret |-> NoDf, arg |-> arg]}
        ELSE IF SortRaises(g)
        THEN {[raised |-> "TypeError", ret |-> NoDf, arg |-> arg]}
        ELSE {[raised |-> "no",
               ret |-> [columns |-> <<Str(Descripcion), Str(ValorSum), Str(Recurrencia)>>,
                        rows |-> [i \in 1..Len(g) |-> g[p[i]]]],
               arg |-> arg] : p \in SortOrders(g)}

----------------------------------------------------------------------------
(* Values of the variables a specification does not use *)


AmountUnused == x = NULL /\ amount = NULL
SegmentUnused == raw_df = NoDf /\ index = 0 /\ table_start = None /\ tables = <<>>
TablesUnused ==
    /\ combined_df = NoDf /\ cleaned_df = NoDf /\ dinamica_df = NoDf
    /\ combined_in = NoDf /\ cleaned_out = NoDf
OutputsUnused ==
    /\ clean_file = NoDf /\ dinamica_file = NoDf
    /\ analysis_result = FALSE /\ pdf_file = FALSE /\ log = <<>>

----------------------------------------------------------------------------
(* convert_amount applied to every raw cell value of a bounded alphabet *)

MaxStrLen == 4

AmountAlphabet == {"0", "5", ".", ",", "-", "(", ")", "$", " ", "a"}

AmountExamples ==
    { <<"$","1",",","2","3","4",".","5","0">>,
      <<"1","2","3",".","4","5","-">>,
      <<"(","5","0",")">>,
      <<"a","b","c">>,
      <<"EUR","5">>, <<"GBP","5",",","0","0","0">>,
      <<"("," ","5","0"," ",")">>, <<"$"," ","5","0","-">> }

AmountInputs ==
    {NULL} \cup {Str(t) : t \in AmountExamples}
           \cup {Str(t) : t \in UNION {[1..n -> AmountAlphabet] : n \in 0..MaxStrLen}}

InitAmount ==
    /\ pc = "amount_call"
    /\ x \in AmountInputs
    /\ amount = NULL
    /\ SegmentUnused /\ TablesUnused /\ OutputsUnused

ConvertAmount ==
    /\ pc = "amount_call"
    /\ amount' = convert_amount(x)
    /\ pc' = "amount_done"
    /\ UNCHANGED <<x, raw_df, index, table_start, tables, combined_df, cleaned_df,
                   dinamica_df, combined_in, cleaned_out, clean_file, dinamica_file,
                   analysis_result, pdf_file, log>>

NextAmount == ConvertAmount

(* The seven steps of the amount parser, each a rewrite of the text; step 1  *)
(* (null) and step 7 (the parse) frame the list.  With trimRest, steps 5 and *)
(* 6 also trim the text left after the sign or the parentheses are removed.  *)
SevenStep(k, t, trimRest) ==
    LET rest(u) == IF trimRest THEN strip(u) ELSE u
        last == IF t = <<>> THEN "" ELSE t[Len(t)]
        first == IF t = <<>> THEN "" ELSE t[1]
    IN  CASE k = 2 -> strip(t)
          [] k = 3 -> SelectSeq(t, LAMBDA ch : ch \notin {"$", "EUR", "GBP"})
          [] k = 4 -> SelectSeq(t, LAMBDA ch : ch # ",")
          [] k = 5 -> IF last = "-" THEN <<"-">> \o rest(SubSeq(t, 1, Len(t) - 1)) ELSE t
          [] k = 6 -> IF first = "(" /\ last = ")"
                      THEN <<"-">> \o rest(SubSeq(t, 2, Len(t) - 1)) ELSE t

RECURSIVE SevenStepsFrom(_, _, _)
SevenStepsFrom(k, t, trimRest) ==
    IF k > 6 THEN t ELSE SevenStepsFrom(k + 1, SevenStep(k, t, trimRest), trimRest)

Reference(c, trimRest) ==
    IF c = NULL THEN NULL
    ELSE LET r == float(SevenStepsFrom(2, c.s, trimRest))
         IN  IF r.k = "num" THEN r ELSE NULL

AmountExamplesHold ==
    /\ x = Str(<<"$","1",",","2","3","4",".","5","0">>) => amount = Num(12345, -1)
    /\ x = Str(<<"1","2","3",".","4","5","-">>) => amount = Num(-12345, -2)
    /\ x = Str(<<"(","5","0",")">>) => amount = Num(-50, 0)
    /\ x = Str(<<"a","b","c">>) => amount = NULL
    /\ x = NULL => amount = NULL

(* C8 as stated: convert_amount returns what the seven steps, read as       *)
(* written (a trailing '-' moved to the front, enclosing parentheses         *)
(* replaced by a leading '-'), return, and never raises.                     *)
C8_AsStated ==
    pc = "amount_done" =>
        /\ amount # RAISED
        /\ amount = Reference(x, FALSE)
        /\ AmountExamplesHold

(* C8, amended: convert_amount never raises and returns what the seven      *)
(* steps return when steps 5 and 6 also trim the whitespace of the text left *)
(* after the trailing '-' or the parentheses are removed; text that is not a *)
(* number after the rewrites gives null, and the four examples hold.         *)
C8_ConvertAmountIsSevenSteps ==
    pc = "amount_done" =>
        /\ amount # RAISED
        /\ amount.k \in {"null", "num"}
        /\ amount = Reference(x, TRUE)
        /\ AmountExamplesHold

(* A currency symbol followed by a space and a trailing minus: the space is  *)
(* trimmed after the '-' is moved, and the value parses.                     *)
C8_Witness ==
    /\ pc = "amount_done"
    /\ x = Str(<<"$", " ", "5", "-">>)
    /\ amount = Num(-5, 0)

SpecAmount == InitAmount /\ [][NextAmount]_vars

----------------------------------------------------------------------------
(* extract_tables scanning every grid of a bounded height, a row at a time *)

MaxSegRows == 4

RawColumns ==
    << Str(<<"c","0">>), Str(<<"c","1">>), Str(<<"c","2">>),
       Str(<<"c","3">>), Str(<<"c","4">>), Str(<<"c","5">>) >>

SegFirstCells ==
    { NULL,
      Str(<<"M","o","v","i","m","i","e","n","t","o","s",":">>),
      Str(<<"x"," ","M","O","V","I","M","I","E","N","T","O","S">>),
      Str(<<"m","o","v","i","m","i","e","n","t","o">>) }

SegRows == { <<f, NULL, NULL, NULL, NULL, b>> : f \in SegFirstCells, b \in {NULL, Str(<<"s">>)} }

SegGrids == UNION {[1..n -> SegRows] : n \in 0..MaxSegRows}

InitSeg ==
    /\ pc = "scan"
    /\ raw_df \in {[columns |-> RawColumns, rows |-> g] : g \in SegGrids}
    /\ index = 0
    /\ table_start = None
    /\ tables = <<>>
    /\ AmountUnused /\ TablesUnused /\ OutputsUnused

ScanRow ==
    /\ pc = "scan"
    /\ index < Len(raw_df.rows)
    /\ LET st == ScanStep([table_start |-> table_start, tables |-> tables],
                          raw_df.rows[index + 1], index)
       IN  /\ table_start' = st.table_start
           /\ tables' = st.tables
    /\ index' = index + 1
    /\ UNCHANGED <<pc, x, amount, raw_df, combined_df, cleaned_df, dinamica_df,
                   combined_in, cleaned_out, clean_file, dinamica_file,
                   analysis_result, pdf_file, log>>

ScanReturn ==
    /\ pc = "scan"
    /\ index = Len(raw_df.rows)
    /\ tables' = ReturnTables([table_start |-> table_start, tables |-> tables], index)
    /\ pc' = "seg_done"
    /\ UNCHANGED <<x, amount, raw_df, index, table_start, combined_df, cleaned_df,
                   dinamica_df, combined_in, cleaned_out, clean_file, dinamica_file,
                   analysis_result, pdf_file, log>>

NextSeg == ScanRow \/ ScanReturn

SpecSeg == InitSeg /\ [][NextSeg]_vars

(* The row at zero-based position i of the grid being scanned *)
RowAt(i) == raw_df.rows[i + 1]

(* The first cell holds text that contains "movimientos", in any case *)
HasSentinel(row) ==
    /\ row[1].k = "str"
    /\ \E i \in 1..Len(row[1].s) :
          /\ i + 10 <= Len(row[1].s)
          /\ \A j \in 0..10 : lower(<<row[1].s[i + j]>>) = <<Sentinel[j + 1]>>

NullBoundary(row) == row[6] = NULL

(* The two-state machine of the segmenter.  sentinelInBoth = FALSE: the     *)
(* sentinel test is applied only while Searching.  TRUE: it is applied in    *)
(* both states and before the null-boundary test.                            *)
MachineStep(m, row, i, sentinelInBoth) ==
    IF (m.state = "Searching" \/ sentinelInBoth) /\ HasSentinel(row)
    THEN [m EXCEPT !.state = "InTable", !.start = i + 1]
    ELSE IF m.state = "InTable" /\ NullBoundary(row)
    THEN [state |-> "Searching", start |-> None,
          emitted |-> Append(m.emitted, [start |-> m.start, end |-> i])]
    ELSE m

RECURSIVE Machine(_, _, _)
Machine(rows, k, sentinelInBoth) ==
    IF k = 0 THEN [state |-> "Searching", start |-> None, emitted |-> <<>>]
    ELSE MachineStep(Machine(rows, k - 1, sentinelInBoth), rows[k], k - 1, sentinelInBoth)

ScanMatches(m) ==
    /\ tables = m.emitted
    /\ (table_start = None) = (m.state = "Searching")
    /\ table_start = m.start

(* C1 as stated: after every scanned row, and at the return, the pending    *)
(* start and the emitted segments are those of the machine whose sentinel    *)
(* test is applied only while Searching.                                     *)
C1_AsStated ==
    pc \in {"scan", "seg_done"} => ScanMatches(Machine(raw_df.rows, index, FALSE))

(* C1, amended: extract_tables emits the segments of the two-state machine  *)
(* whose sentinel test is applied in both states and before the              *)
(* null-boundary test: a sentinel row scanned while InTable restarts the     *)
(* pending start at i + 1 and emits nothing, a row that is no sentinel row   *)
(* and has a null column-5 cell closes and emits [start, i) while InTable,   *)
(* and every other row leaves the state and the pending start unchanged.     *)
C1_ScanRefinesMachine ==
    pc \in {"scan", "seg_done"} => ScanMatches(Machine(raw_df.rows, index, TRUE))

(* A sentinel row was scanned while a table was pending, and a segment was   *)
(* emitted after it.                                                         *)
C1_Witness ==
    /\ pc = "seg_done"
    /\ tables # <<>>
    /\ \E i \in 0..(Len(raw_df.rows) - 1) :
          /\ HasSentinel(RowAt(i))
          /\ Machine(raw_df.rows, i, TRUE).state = "InTable"
          /\ tables[Len(tables)].start = i + 1

(* C2: every emitted segment [start, end) starts one past a sentinel row,   *)
(* ends at a row whose column-5 cell is null, and holds no row whose         *)
(* column-5 cell is null.                                                    *)
C2_SegmentBounds ==
    pc \in {"scan", "seg_done"} =>
        \A j \in 1..Len(tables) :
            LET seg == tables[j] IN
            /\ 1 <= seg.start /\ seg.start <= seg.end /\ seg.end < Len(raw_df.rows)
            /\ HasSentinel(RowAt(seg.start - 1))
            /\ NullBoundary(RowAt(seg.end))
            /\ \A k \in seg.start..(seg.end - 1) : ~NullBoundary(RowAt(k))

(* A segment with a row in it was emitted, and rows were scanned after it. *)
C2_Witness ==
    /\ pc = "seg_done"
    /\ Len(tables) = 1
    /\ tables[1].end > tables[1].start
    /\ tables[1].end + 1 < Len(raw_df.rows)

(* C3: when the scan has ended, every returned segment was closed by a row  *)
(* of the grid whose column-5 cell is null; a start still pending has no     *)
(* segment (every returned segment ends before it); and a grid with no       *)
(* sentinel row returns the empty list.                                      *)
C3_TrailingRunDiscarded ==
    pc = "seg_done" =>
        /\ \A j \in 1..Len(tables) :
              /\ tables[j].end < Len(raw_df.rows)
              /\ NullBoundary(RowAt(tables[j].end))
              /\ table_start # None => tables[j].end < table_start
        /\ Len(tables) <= Cardinality({i \in 0..(Len(raw_df.rows) - 1) : NullBoundary(RowAt(i))})
        /\ (\A i \in 0..(Len(raw_df.rows) - 1) : ~HasSentinel(RowAt(i))) => tables = <<>>

(* The grid ended with a start pending and rows after it, after an earlier   *)
(* segment was closed.                                                       *)
C3_Witness ==
    /\ pc = "seg_done"
    /\ table_start # None
    /\ table_start < Len(raw_df.rows)
    /\ Len(tables) = 1

----------------------------------------------------------------------------
(* main *)

Warning == "No se encontraron tablas en el archivo."
Saved == "Archivo limpio guardado"

SentinelRow == <<Str(<<"M","o","v","i","m","i","e","n","t","o","s",":">>), NULL, NULL, NULL, NULL, NULL>>
BlankRow == <<NULL, NULL, NULL, NULL, NULL, NULL>>

HeaderRow ==
    << Str(<<"F","E","C","H","A">>), Str(<<"D","E","S","C","R","I","P","C","I","O_ACUTE","N">>),
       Str(<<"S","U","C","U","R","S","A","L">>), Str(<<"D","C","T","O",".">>),
       Str(<<"V","A","L","O","R">>), Str(<<"S","A","L","D","O">>) >>

(* The same header with spaces around the amount label *)
HeaderRowPadded == [HeaderRow EXCEPT ![5] = Str(<<" ","V","A","L","O","R"," ">>)]

(* A header whose amount column is the third *)
HeaderRowValorThird ==
    << HeaderRow[1], HeaderRow[2], Str(<<"V","a","l","o","r">>), HeaderRow[3], HeaderRow[4], HeaderRow[6] >>

DataRowRent ==
    << Str(<<"1","/","0","1">>), Str(<<"r","e","n","t">>), Str(<<"0","5">>),
       Str(<<"0">>), Str(<<"1","0","0",".","0","0","-">>), Str(<<"5","0","0">>) >>

DataRowFood ==
    << Str(<<"2","/","0","1">>), Str(<<"f","o","o","d">>), Str(<<"$","5","0">>),
       Str(<<"0">>), Str(<<"(","5","0",".","5",")">>), Str(<<"4","5","0">>) >>

MaxMainRows == 5

MainRows ==
    {SentinelRow, BlankRow, HeaderRow, HeaderRowPadded, HeaderRowValorThird, DataRowRent, DataRowFood}

MainGrids == UNION {[1..n -> MainRows] : n \in 0..MaxMainRows}

(* raw_df.iloc[start:end] *)
SliceRows(df, t) == SubSeq(df.rows, t.start + 1, t.end)

RECURSIVE ConcatRows(_, _)
ConcatRows(df, ts) ==
    IF ts = <<>> THEN <<>> ELSE SliceRows(df, Head(ts)) \o ConcatRows(df, Tail(ts))

Init ==
    /\ pc = "load"
    /\ raw_df = NoDf
    /\ index = 0
    /\ table_start = None
    /\ tables = <<>>
    /\ AmountUnused /\ TablesUnused /\ OutputsUnused

(* convert_xlsx_to_df(FILE_PATH): the file holds some grid *)
LoadFile ==
    /\ pc = "load"
    /\ \E g \in MainGrids : raw_df' = [columns |-> RawColumns, rows |-> g]
    /\ pc' = "extract"
    /\ UNCHANGED <<x, amount, index, table_start, tables, combined_df, cleaned_df,
                   dinamica_df, combined_in, cleaned_out, clean_file, dinamica_file,
                   analysis_result, pdf_file, log>>

(* convert_xlsx_to_df(FILE_PATH): the file cannot be read, the error is logged *)
(* and raised again                                                            *)
LoadFileFails ==
    /\ pc = "load"
    /\ pc' = "raised"
    /\ UNCHANGED <<x, amount, raw_df, index, table_start, tables, combined_df, cleaned_df,
                   dinamica_df, combined_in, cleaned_out, clean_file, dinamica_file,
                   analysis_result, pdf_file, log>>

ExtractTables ==
    /\ pc = "extract"
    /\ tables' = extract_tables(raw_df)
    /\ pc' = "check"
    /\ UNCHANGED <<x, amount, raw_df, index, table_start, combined_df, cleaned_df,
                   dinamica_df, combined_in, cleaned_out, clean_file, dinamica_file,
                   analysis_result, pdf_file, log>>

(* A variant that logs the warning and carries on. *)
NoTablesFound_NoReturn ==
    /\ pc = "check"
    /\ tables = <<>>
    /\ log' = Append(log, Warning)
    /\ combined_df' = [columns |-> RawColumns, rows |-> <<>>]
    /\ pc' = "clean"
    /\ UNCHANGED <<x, amount, raw_df, index, table_start, tables, cleaned_df,
                   dinamica_df, combined_in, cleaned_out, clean_file, dinamica_file,
                   analysis_result, pdf_file>>

(* if not tables: logger.warning(...); return *)
NoTablesFound ==
    /\ pc = "check"
    /\ tables = <<>>
    /\ log' = Append(log, Warning)
    /\ pc' = "done"
    /\ UNCHANGED <<x, amount, raw_df, index, table_start, tables, combined_df, cleaned_df,
                   dinamica_df, combined_in, cleaned_out, clean_file, dinamica_file,
                   analysis_result, pdf_file>>

(* combined_df = pd.concat(tables, ignore_index=True) *)
Concat ==
    /\ pc = "check"
    /\ tables # <<>>
    /\ combined_df' = [columns |-> raw_df.columns, rows |-> ConcatRows(raw_df, tables)]
    /\ pc' = "clean"
    /\ UNCHANGED <<x, amount, raw_df, index, table_start, tables, cleaned_df,
                   dinamica_df, combined_in, cleaned_out, clean_file, dinamica_file,
                   analysis_result, pdf_file, log>>

(* cleaned_df = clean_combined_df(combined_df); combined_in and cleaned_out *)
(* record the table passed and the value returned.                           *)
Clean ==
    /\ pc = "clean"
    /\ LET r == clean_combined_df(combined_df)
       IN  /\ combined_in' = combined_df
           /\ combined_df' = r.arg
           /\ cleaned_df' = r.ret
           /\ cleaned_out' = r.ret
           /\ pc' = IF r.raised = "no" THEN "summarize" ELSE "raised"
    /\ UNCHANGED <<x, amount, raw_df, index, table_start, tables, dinamica_df,
                   clean_file, dinamica_file, analysis_result, pdf_file, log>>

(* dinamica_df = summarize_and_sort_dinamica(cleaned_df) *)
Summarize ==
    /\ pc = "summarize"
    /\ \E r \in summarize_and_sort_dinamica(cleaned_df) :
          /\ cleaned_df' = r.arg
          /\ dinamica_df' = r.ret
          /\ pc' = IF r.raised = "no" THEN "write_clean" ELSE "raised"
    /\ UNCHANGED <<x, amount, raw_df, index, table_start, tables, combined_df,
                   combined_in, cleaned_out, clean_file, dinamica_file,
                   analysis_result, pdf_file, log>>

(* cleaned_df.to_excel(CLEAN_FILE_PATH, index=False) *)
WriteClean ==
    /\ pc = "write_clean"
    /\ clean_file' = cleaned_df
    /\ pc' = "write_dinamica"
    /\ UNCHANGED <<x, amount, raw_df, index, table_start, tables, combined_df, cleaned_df,
                   dinamica_df, combined_in, cleaned_out, dinamica_file,
                   analysis_result, pdf_file, log>>

(* dinamica_df.to_excel(DINAMICA_FILE_PATH, index=False); logger.info(...) *)
WriteDinamica ==
    /\ pc = "write_dinamica"
    /\ dinamica_file' = dinamica_df
    /\ log' = Append(log, Saved)
    /\ pc' = "analyze"
    /\ UNCHANGED <<x, amount, raw_df, index, table_start, tables, combined_df, cleaned_df,
                   dinamica_df, combined_in, cleaned_out, clean_file,
                   analysis_result, pdf_file>>

(* analysis_result = analyze_data(dinamica_df) *)
AnalyzeData ==
    /\ pc = "analyze"
    /\ analysis_result' = TRUE
    /\ pc' = "pdf"
    /\ UNCHANGED <<x, amount, raw_df, index, table_start, tables, combined_df, cleaned_df,
                   dinamica_df, combined_in, cleaned_out, clean_file, dinamica_file,
                   pdf_file, log>>

(* generate_pdf_report(analysis_result, pdf_output_path) *)
GeneratePdfReport ==
    /\ pc = "pdf"
    /\ pdf_file' = TRUE
    /\ pc' = "done"
    /\ UNCHANGED <<x, amount, raw_df, index, table_start, tables, combined_df, cleaned_df,
                   dinamica_df, combined_in, cleaned_out, clean_file, dinamica_file,
                   analysis_result, log>>

Next ==
    \/ LoadFile
    \/ LoadFileFails
    \/ ExtractTables
    \/ NoTablesFound
    \/ Concat
    \/ Clean
    \/ Summarize
    \/ WriteClean
    \/ WriteDinamica
    \/ AnalyzeData
    \/ GeneratePdfReport

Spec == Init /\ [][Next]_vars

OutputsMade == clean_file # NoDf \/ dinamica_file # NoDf \/ analysis_result \/ pdf_file

(* extract_tables has returned in this run *)
Segmented == pc \notin {"load", "extract"} /\ raw_df # NoDf

(* C4: once the segmenter has returned zero segments, main is at its check  *)
(* or has returned with the warning as its only log entry, and no cleaned    *)
(* table, summary table, completion or PDF was produced; and none of these   *)
(* four is produced unless the segmenter has returned at least one segment.  *)
C4_NoTablesStops ==
    /\ (Segmented /\ tables = <<>>) =>
          /\ pc \in {"check", "done"}
          /\ pc = "done" => log = <<Warning>>
          /\ ~OutputsMade
    /\ OutputsMade => (Segmented /\ tables # <<>>)
    /\ Warning \in {log[i] : i \in 1..Len(log)} => (tables = <<>> /\ pc = "done")

(* A grid with a sentinel row and no closing row: main has returned with    *)
(* the warning.                                                              *)
C4_Witness ==
    /\ pc = "done"
    /\ tables = <<>>
    /\ \E i \in 1..Len(raw_df.rows) : IsSentinelRow(raw_df.rows[i])
    /\ log = <<Warning>>

AfterClean == pc \in {"summarize", "write_clean", "write_dinamica", "analyze", "pdf", "done"}
AfterSummarize == pc \in {"write_clean", "write_dinamica", "analyze", "pdf", "done"}

(* C9: after clean_combined_df returns, the combined table passed to it is  *)
(* as it was passed; after summarize_and_sort_dinamica returns, the cleaned  *)
(* table is the value clean_combined_df returned; and the cleaned table      *)
(* written is that value.                                                    *)
C9_NoStageMutatesItsInput ==
    /\ (AfterClean /\ cleaned_out # NoDf) => combined_df = combined_in
    /\ (AfterSummarize /\ cleaned_out # NoDf) => cleaned_df = cleaned_out
    /\ clean_file # NoDf => clean_file = cleaned_out

(* C10: when the run reaches aggregation, the column whose trimmed label is *)
(* 'valor' is the column clean_combined_df converted, and each of its cells  *)
(* is a parsed amount or null.                                               *)
C10_SummedColumnIsConverted ==
    (pc = "summarize" /\ cleaned_df # NoDf) =>
        \A j \in 1..Len(cleaned_df.columns) :
            (cleaned_df.columns[j].k = "str" /\ strip(cleaned_df.columns[j].s) = ValorLabel) =>
                /\ j = AmountColumn(cleaned_df.columns)
                /\ \A i \in 1..Len(cleaned_df.rows) : cleaned_df.rows[i][j].k \in {"num", "null"}

----------------------------------------------------------------------------
(* clean_combined_df on every concatenation of segments that each begin    *)
(* with the header line                                                      *)

MaxSegments == 3
MaxSegData == 1

DataRowFechaNote ==
    << Str(<<"F","e","c","h","a"," ","x">>), Str(<<"b","u","s">>), NULL, NULL,
       Str(<<"5">>), Str(<<"1">>) >>

CleanDataRows == {DataRowRent, DataRowFood, DataRowFechaNote}

HeadedSegments ==
    {<<HeaderRow>> \o d : d \in UNION {[1..n -> CleanDataRows] : n \in 0..MaxSegData}}

RECURSIVE Flatten(_)
Flatten(segs) == IF segs = <<>> THEN <<>> ELSE Head(segs) \o Flatten(Tail(segs))

CleanInputs ==
    {[columns |-> RawColumns, rows |-> Flatten(segs)] :
        segs \in UNION {[1..n -> HeadedSegments] : n \in 2..MaxSegments}}

InitClean ==
    /\ pc = "clean"
    /\ combined_df \in CleanInputs
    /\ cleaned_df = NoDf /\ dinamica_df = NoDf /\ combined_in = NoDf /\ cleaned_out = NoDf
    /\ AmountUnused /\ SegmentUnused /\ OutputsUnused

NextClean == Clean

SpecClean == InitClean /\ [][NextClean]_vars

(* A row, its amount cell aside *)
Passthrough(r) == [r EXCEPT ![5] = NULL]

IsHeaderLine(r) == Passthrough(r) = Passthrough(HeaderRow)

(* The first cell is text that contains "fecha" in any case *)
MatchesFecha(r) ==
    /\ r[1].k = "str"
    /\ \E i \in 1..Len(r[1].s) :
          /\ i + 4 <= Len(r[1].s)
          /\ lower(SubSeq(r[1].s, i, i + 4)) = <<"f","e","c","h","a">>

PassthroughAll(rows) == [i \in 1..Len(rows) |-> Passthrough(rows[i])]

(* What C5 says of the rows that are kept whatever they hold *)
KeptRows(data, out) ==
    /\ data # <<>> => (out # <<>> /\ Passthrough(out[1]) = Passthrough(data[1]))
    /\ SelectSeq(PassthroughAll(out), LAMBDA r : ~MatchesFecha(r))
         = SelectSeq(PassthroughAll(data), LAMBDA r : ~MatchesFecha(r))
    /\ cleaned_df.columns = [j \in 1..6 |-> Str(lower(HeaderRow[j].s))]

(* C5 as stated: no data row of the normalized table is a header line, the  *)
(* first remaining data row is kept, and the rows that do not match are kept *)
(* in their order.                                                           *)
C5_AsStated ==
    (pc = "summarize" /\ combined_in # NoDf) =>
        /\ \A j \in 1..Len(cleaned_df.rows) : ~IsHeaderLine(cleaned_df.rows[j])
        /\ KeptRows(Tail(combined_in.rows), cleaned_df.rows)

(* C5, amended: the first header line becomes the column header; no data    *)
(* row after the first has a first cell containing 'fecha'; the first        *)
(* remaining data row is always kept, so it is a header line exactly when    *)
(* the first segment holds nothing but its header line; and the rows that    *)
(* do not match are kept in their order.                                     *)
C5_OnlyFirstRowMayBeHeader ==
    (pc = "summarize" /\ combined_in # NoDf) =>
        /\ \A j \in 2..Len(cleaned_df.rows) : ~MatchesFecha(cleaned_df.rows[j])
        /\ \A j \in 1..Len(cleaned_df.rows) :
              IsHeaderLine(cleaned_df.rows[j]) => (j = 1 /\ IsHeaderLine(combined_in.rows[2]))
        /\ KeptRows(Tail(combined_in.rows), cleaned_df.rows)

(* Two segments with data rows: the second header line was removed and the  *)
(* rows around it were kept.                                                 *)
C5_Witness ==
    /\ pc = "summarize"
    /\ combined_in # NoDf
    /\ Len(combined_in.rows) = 4
    /\ IsHeaderLine(combined_in.rows[3])
    /\ Len(cleaned_df.rows) = 2

----------------------------------------------------------------------------
(* summarize_and_sort_dinamica on every normalized table of a bounded height *)

MaxSumRows == 3

SumDescriptions == {NULL, Str(<<"r","e","n","t">>), Str(<<"f","o","o","d">>), Str(<<"b","u","s">>)}
SumAmounts == {NULL, Num(-100, 0), Num(505, -1)}

SumRows == {<<Str(<<"1","/","0","1">>), d, NULL, NULL, a, NULL>> : d \in SumDescriptions, a \in SumAmounts}

SumInputs ==
    {[columns |-> [j \in 1..6 |-> StrLower(HeaderRow[j])], rows |-> rs] :
        rs \in UNION {[1..n -> SumRows] : n \in 0..MaxSumRows}}

InitSum ==
    /\ pc = "summarize"
    /\ cleaned_df \in SumInputs
    /\ combined_df = NoDf /\ dinamica_df = NoDf /\ combined_in = NoDf /\ cleaned_out = NoDf
    /\ AmountUnused /\ SegmentUnused /\ OutputsUnused

NextSum == Summarize

SpecSum == InitSum /\ [][NextSum]_vars

(* Hundredths of an amount cell; 0 for null *)
Hundredths(c) == IF c.k = "num" THEN c.n * Pow10(c.e + 2) ELSE 0

RECURSIVE TotalHundredths(_, _, _)
TotalHundredths(rows, key, i) ==
    IF i = 0 THEN 0
    ELSE TotalHundredths(rows, key, i - 1)
           + (IF rows[i][2] = key THEN Hundredths(rows[i][5]) ELSE 0)

(* C6: the summary has exactly one row per distinct description of the      *)
(* table (a null description is none); its total is the sum of the amounts   *)
(* of the rows with that description, null amounts left out, and its         *)
(* recurrence the number of those rows, null amounts counted.                *)
C6_OneRowPerDescription ==
    (pc = "write_clean") =>
        LET rows == cleaned_df.rows
            out == dinamica_df.rows
            keys == {rows[i][2] : i \in 1..Len(rows)} \ {NULL}
        IN  /\ Len(out) = Cardinality(keys)
            /\ \A key \in keys : \E j \in 1..Len(out) :
                  /\ out[j][1] = key
                  /\ out[j][2].k = "num"
                  /\ Hundredths(out[j][2]) = TotalHundredths(rows, key, Len(rows))
                  /\ out[j][3] = Num(Cardinality({i \in 1..Len(rows) : rows[i][2] = key}), 0)
            /\ (Len(rows) = 3 /\ \A i \in 1..3 : rows[i][2] = Str(<<"r","e","n","t">>)
                                                  /\ rows[i][5] = Num(-100, 0))
                  => out = << <<Str(<<"r","e","n","t">>), Num(-300, 0), Num(3, 0)>> >>

(* A description with two rows, one of them with a null amount *)
C6_Witness ==
    /\ pc = "write_clean"
    /\ \E j \in 1..Len(dinamica_df.rows) :
          /\ dinamica_df.rows[j][3] = Num(2, 0)
          /\ dinamica_df.rows[j][2] = Num(-100, 0)
    /\ Len(dinamica_df.rows) = 2

(* C7 as stated: each total is greater than the next, and groups of equal   *)
(* totals are in groupby order (ascending by description).                   *)
C7_AsStated ==
    (pc = "write_clean") =>
        LET out == dinamica_df.rows
        IN  /\ \A i \in 1..(Len(out) - 1) : Less(out[i + 1][2], out[i][2])
            /\ \A i, j \in 1..Len(out) :
                  (i < j /\ out[i][2] = out[j][2]) => TextLess(out[i][1].s, out[j][1].s)

(* C7, amended: no total is smaller than the next (signed totals, equal     *)
(* totals allowed); the order among groups of equal totals is not fixed.     *)
C7_NonIncreasingTotals ==
    (pc = "write_clean") =>
        LET out == dinamica_df.rows
        IN  \A i \in 1..(Len(out) - 1) :
                Hundredths(out[i][2]) >= Hundredths(out[i + 1][2])

(* Three groups, two of them with the same total, the third with a smaller  *)
(* one                                                                       *)
C7_Witness ==
    /\ pc = "write_clean"
    /\ Len(dinamica_df.rows) = 3
    /\ dinamica_df.rows[1][2] = dinamica_df.rows[2][2]
    /\ dinamica_df.rows[3][2] = Num(-100, 0)

====
